---- MODULE Spec2Model ----
(***************************************************************************)
(* RabbitMQManager (src/rabbitmq/rabbitmq-setup.js) as a state machine:    *)
(* the manager's fields, the broker objects it talks to (connections,      *)
(* channels, topology, one consumed queue), the caller that runs           *)
(* connect()/reconnect()/publishMessage()/consumeMessages(), the signal    *)
(* handler that runs close(), and the consumer callback per delivery;      *)
(* with it the event envelopes (BaseEvent), the email service's handler    *)
(* (src/email-service/app.js) and the user service's register endpoint.    *)
(* Every await of the source is a step boundary; the code between two      *)
(* awaits is one atomic step (single-threaded event loop).                 *)
(*                                                                         *)
(* amqplib behaviour relied on: an operation on a closed channel or a      *)
(* closed connection throws (IllegalOperationError); a failed declaration  *)
(* is a channel exception, which closes the channel and leaves the         *)
(* connection open; closing a channel returns its unacknowledged           *)
(* deliveries to the queue.                                                *)
(***************************************************************************)
EXTENDS Integers, Sequences, FiniteSets, TLC

\* ------------------------------------------------------------- bounds
MaxConns == 2
MaxRetries == 2
MaxCloses == 1
MaxMsgs == 2
MaxDeliveries == 3

NULL == 0
ConnIds == 1..MaxConns
Msgs == 1..MaxMsgs
DelIds == 1..MaxDeliveries

VARIABLES
  connection,    \* this.connection: a connection id or NULL
  channel,       \* this.channel: a channel id or NULL (channel k lives on connection k)
  isConnected,   \* this.isConnected
  nextConn,      \* number of broker connections opened so far
  connOpen,      \* set of connections that are open
  chanOpen,      \* set of channels that are open
  listeners,     \* connections with the 'error'/'close' listeners registered
  broker,        \* topology objects declared on the broker
  declared,      \* declarations made by the setupExchangesAndQueues run in
                 \* progress or last completed, in order, with their channel
  pc,            \* position of the caller inside connect()/reconnect()
  call,          \* "none", "connect" or "reconnect": the call in progress
  setupIdx,      \* index of the declaration awaited in setupExchangesAndQueues
  retries,       \* reconnect: retries
  maxRetries,    \* reconnect: maxRetries
  rc,            \* what the reconnect call in progress has done so far
  pcS,           \* position of the signal handler inside close()
  cl,            \* what the close() call in progress has done so far
  closes,        \* number of close() calls started
  hist,          \* lifecycle facts since construction (see HistInit)
  ret,           \* the call that returned in the last step, with its outcome
  consumers,     \* channels on which a consumer of the queue is registered
  ready,         \* messages ready in the queue
  payload,       \* per message, "json", "garbage", or "none" (not on the broker)
  envelope,      \* per message, the object its JSON text holds (NoEnv if none)
  invoked,       \* per message, number of times the handler was invoked for it
  users,         \* user service: usernames of the rows of table users
  sent,          \* messages put on the queue so far
  del,           \* per delivery id, the delivery record
  nDel,          \* number of deliveries made so far
  tags           \* per channel, the last delivery tag used on it

lifeVars == <<connection, channel, isConnected, nextConn, connOpen, chanOpen,
              listeners, broker, declared>>
callVars == <<pc, call, setupIdx, retries, maxRetries, rc>>
closeVars == <<pcS, cl, closes>>
queueVars == <<consumers, ready, payload, envelope, invoked, users, sent, del,
              nDel, tags>>
vars == <<lifeVars, callVars, closeVars, queueVars, hist, ret>>

\* ----------------------------------------------------------- topology
\* shared/events: EXCHANGES, QUEUES, ROUTING_KEYS
UserExchange == "user.events.exchange"
EmailExchange == "email.events.exchange"
UserEventsQueue == "user.events"
EmailRequestsQueue == "email.requests"
EmailResponsesQueue == "email.responses"

\* routing keys and binding patterns are sequences of words (the text between
\* the dots): ROUTING_KEYS.USER_REGISTERED and the keys and the pattern that
\* the code writes as literals
UserRegisteredKey == <<"user", "registered">>
EmailSentKey == <<"email", "sent">>
EmailFailedKey == <<"email", "failed">>
EmailAnyPattern == <<"email", "*">>

Exchange(n) == [kind |-> "exchange", name |-> n, queue |-> "", pattern |-> <<>>]
Queue(n) == [kind |-> "queue", name |-> n, queue |-> "", pattern |-> <<>>]
Binding(q, x, p) == [kind |-> "binding", name |-> x, queue |-> q, pattern |-> p]

\* a setup that forgets the last bindQueue
SetupItemsNoLastBinding ==
  << Exchange(UserExchange), Exchange(EmailExchange),
     Queue(UserEventsQueue), Queue(EmailRequestsQueue), Queue(EmailResponsesQueue),
     Binding(EmailRequestsQueue, UserExchange, UserRegisteredKey) >>

\* a setup that binds email.requests before anything else is declared
SetupItemsBindingFirst ==
  << Binding(EmailRequestsQueue, UserExchange, UserRegisteredKey),
     Exchange(UserExchange), Exchange(EmailExchange),
     Queue(UserEventsQueue), Queue(EmailRequestsQueue), Queue(EmailResponsesQueue),
     Binding(EmailResponsesQueue, EmailExchange, EmailAnyPattern) >>

\* setupExchangesAndQueues: the awaited declarations, in program order
SetupItems ==
  << Exchange(UserExchange), Exchange(EmailExchange),
     Queue(UserEventsQueue), Queue(EmailRequestsQueue), Queue(EmailResponsesQueue),
     Binding(EmailRequestsQueue, UserExchange, UserRegisteredKey),
     Binding(EmailResponsesQueue, EmailExchange, EmailAnyPattern) >>

\* ------------------------------------------------------------- records
RcIdle == [startDisc |-> FALSE, opened |-> FALSE, trace |-> <<>>]
ClIdle == [conn |-> NULL, chanWasOpen |-> FALSE, log |-> <<>>]
NoDecl == [ch |-> NULL, items |-> <<>>]
NoRet == [kind |-> "none"]

\* an event object: the five fields of BaseEvent. A field that the object
\* lacks (undefined) is "absent". data is [body, when]: body stands for the
\* user the event is about, when says how the instant the data carries
\* (registeredAt, sentAt, failedAt) is held: as a Date object ("Date"), as
\* ISO text ("text"), or not at all ("none")
NoData == [body |-> "absent", when |-> "none"]
NoEnv == [type |-> "none", data |-> NoData, timestamp |-> "none",
          correlationId |-> "none", version |-> "none"]

NoDel == [msg |-> NULL, ch |-> NULL, tag |-> 0, st |-> "none", broker |-> "none",
          content |-> NoEnv]

\* a well-formed user.registered event as it arrives (JSON holds no Date)
AnEvent == [type |-> "user.registered", data |-> [body |-> "u1", when |-> "text"],
            timestamp |-> "t1", correlationId |-> "c1", version |-> "1.0"]

\* what a handler reports when it ends: how it ended, whether it ran its
\* domain logic (sendEmail), whether the email was sent (sendEmail
\* resolved), the events it published with the queues each reached. NoHandler: the handler was not invoked
NoHandler == [outcome |-> "none", domain |-> FALSE, emailed |-> FALSE,
              events |-> <<>>]

\* ------------------------------------------------------------- events
\* shared/events, EVENT_TYPES
UserRegisteredType == "user.registered"
EmailSentType == "email.sent"
EmailFailedType == "email.failed"

\* correlationId || ...: the values of correlationId that are falsy in
\* JavaScript (undefined, null, the empty string)
Falsy(v) == v \in {"absent", "null", ""}

\* BaseEvent constructor: now is what new Date().toISOString() returns, fresh
\* what generateId() would return
BaseEvent(type, data, correlationId, now, fresh) ==
  [type |-> type, data |-> data, timestamp |-> now,
   correlationId |-> IF Falsy(correlationId) THEN fresh ELSE correlationId,
   version |-> "1.0"]

\* BaseEvent.toJSON: a plain object with the five fields of the event
ToJSON(event) ==
  [type |-> event.type, data |-> event.data, timestamp |-> event.timestamp,
   correlationId |-> event.correlationId, version |-> event.version]

\* the keys of an event object, in the order toJSON writes them
Fields == <<"type", "data", "timestamp", "correlationId", "version">>

\* a value that JSON.stringify leaves out: undefined
Undefined(key, value) ==
  IF key = "data" THEN value = NoData ELSE value = "absent"

\* JSON.stringify of the data object: a Date is written as its ISO text
\* (Date.prototype.toJSON)
DataText(data) ==
  [data EXCEPT !.when = IF @ = "Date" THEN "text" ELSE @]

\* line 79, JSON.stringify(message): the JSON text as the sequence of its
\* <<key, value>> members; a member whose value is undefined is left out
JsonStringify(obj) ==
  SelectSeq([i \in 1..Len(Fields) |->
               <<Fields[i], IF Fields[i] = "data" THEN DataText(obj.data)
                            ELSE obj[Fields[i]]>>],
            LAMBDA member : ~Undefined(member[1], member[2]))

\* the value of member key of a JSON text, or undefined when it has none
Member(text, key) ==
  IF \E i \in 1..Len(text) : text[i][1] = key
  THEN text[CHOOSE i \in 1..Len(text) : text[i][1] = key][2]
  ELSE IF key = "data" THEN NoData ELSE "absent"

\* line 119, JSON.parse(msg.content.toString()): the object a JSON text holds
JsonParse(text) ==
  [type |-> Member(text, "type"), data |-> Member(text, "data"),
   timestamp |-> Member(text, "timestamp"),
   correlationId |-> Member(text, "correlationId"),
   version |-> Member(text, "version")]

\* BaseEvent.fromJSON: the constructor, then timestamp and version taken
\* from json
FromJSON(json, now, fresh) ==
  [BaseEvent(json.type, json.data, json.correlationId, now, fresh)
     EXCEPT !.timestamp = json.timestamp, !.version = json.version]

\* what arrives at a consumer for a message object handed to publishMessage
Transmit(message) == JsonParse(JsonStringify(message))

\* hist.state is the manager's state in the sense of the state machine
\* Disconnected -> Connected -> Disconnected: Connected from the successful
\* return of connect(), Disconnected from an error/close event of the
\* current connection or the return of close(). everOK: some connect() has
\* returned successfully. evtSince: a listener of lines 19-27 has run since
\* the last successful return of connect(). closeSince: close() has been
\* called since then.
HistInit == [everOK |-> FALSE, state |-> "Disconnected", evtSince |-> FALSE,
             closeSince |-> FALSE]

Init ==
  /\ connection = NULL /\ channel = NULL /\ isConnected = FALSE
  /\ nextConn = 0 /\ connOpen = {} /\ chanOpen = {} /\ listeners = {}
  /\ broker = {} /\ declared = NoDecl
  /\ pc = "idle" /\ call = "none" /\ setupIdx = 0
  /\ retries = 0 /\ maxRetries = 0 /\ rc = RcIdle
  /\ pcS = "idle" /\ cl = ClIdle /\ closes = 0
  /\ hist = HistInit /\ ret = NoRet
  /\ consumers = {} /\ ready = {} /\ payload = [m \in Msgs |-> "none"]
  /\ envelope = [m \in Msgs |-> NoEnv] /\ invoked = [m \in Msgs |-> 0]
  /\ users = {}
  /\ sent = 0 /\ del = [d \in DelIds |-> NoDel] /\ nDel = 0
  /\ tags = [c \in ConnIds |-> 0]

\* --------------------------------------------------- broker-side helpers
\* closing the channels cs returns their unacknowledged deliveries to the queue
ReadyAfterClose(cs) ==
  ready \cup { del[d].msg : d \in { e \in DelIds : del[e].ch \in cs
                                                  /\ del[e].broker = "unacked" } }
\* a delivery whose callback has ended and which the broker has settled
\* is over: its record is dropped
Forget(r) == IF r.st = "done" /\ r.broker # "unacked" THEN NoDel ELSE r
DelAfterClose(cs) ==
  [d \in DelIds |-> IF del[d].ch \in cs /\ del[d].broker = "unacked"
                    THEN Forget([del[d] EXCEPT !.broker = "requeued"]) ELSE del[d]]

\* ------------------------------------------------------------- connect
\* reconnect, line 166 with the bound off by one
ReconnectGuardOffByOne(r, max, conn) == r <= max /\ ~conn

\* reconnect, line 166: while (retries < maxRetries && !this.isConnected)
ReconnectGuard(r, max, conn) == r < max /\ ~conn

\* the record of a reconnect call that ended with outcome res
ReconnectRet(res, max, rcNow) ==
  [kind |-> "reconnect", res |-> res, n |-> max, startDisc |-> rcNow.startDisc,
   opened |-> rcNow.opened, trace |-> rcNow.trace]

\* reconnect: the loop test and what follows it (a new attempt, or the throw
\* of line 180); r, max are retries and maxRetries, rcNow the call so far
LoopTest(r, max, rcNow) ==
  IF ReconnectGuard(r, max, isConnected)
  THEN /\ pc' = "c_connect"
       /\ call' = "reconnect"
       /\ retries' = r /\ maxRetries' = max
       /\ rc' = [rcNow EXCEPT !.trace = Append(@, "a")]
       /\ ret' = NoRet
  ELSE /\ pc' = "idle"
       /\ call' = "none"
       /\ retries' = 0 /\ maxRetries' = 0
       /\ rc' = RcIdle
       /\ ret' = ReconnectRet("exhausted", max, rcNow)

\* connect() threw (lines 36-39); inside reconnect the catch of lines 171-177
AfterConnectThrow ==
  IF call = "connect"
  THEN /\ pc' = "idle" /\ call' = "none"
       /\ ret' = [kind |-> "connect", res |-> "failed"]
       /\ UNCHANGED <<retries, maxRetries, rc>>
  ELSE IF retries + 1 < maxRetries
  THEN /\ pc' = "r_wait"
       /\ retries' = retries + 1
       /\ ret' = NoRet
       /\ UNCHANGED <<call, maxRetries, rc>>
  ELSE LoopTest(retries + 1, maxRetries, rc)

\* connect() returned this.channel (line 35); inside reconnect, return true
\* (line 170)
AfterConnectReturn ==
  /\ pc' = "idle" /\ call' = "none"
  /\ retries' = 0 /\ maxRetries' = 0 /\ rc' = RcIdle
  /\ ret' = IF call = "reconnect"
            THEN ReconnectRet("ok", maxRetries, rc)
            ELSE [kind |-> "connect", res |-> "ok"]

\* the caller invokes connect() (startServer / startService)
StartConnect ==
  /\ pc = "idle"
  /\ pc' = "c_connect" /\ call' = "connect"
  /\ ret' = NoRet
  /\ UNCHANGED <<setupIdx, retries, maxRetries, rc>>
  /\ UNCHANGED <<lifeVars, closeVars, queueVars, hist>>

\* the caller invokes reconnect(n, delay)
StartReconnect(n) ==
  /\ pc = "idle"
  /\ LoopTest(0, n, [startDisc |-> ~isConnected, opened |-> FALSE, trace |-> <<>>])
  /\ UNCHANGED setupIdx
  /\ UNCHANGED <<lifeVars, closeVars, queueVars, hist>>

\* line 15: this.connection = await amqp.connect(this.url) resolves: the
\* broker is reachable and accepts the connection
ConnectOpened ==
  /\ pc = "c_connect"
  /\ nextConn < MaxConns
  /\ nextConn' = nextConn + 1
  /\ connection' = nextConn + 1
  /\ connOpen' = connOpen \cup {nextConn + 1}
  /\ pc' = "c_channel"
  /\ rc' = IF call = "reconnect" THEN [rc EXCEPT !.opened = TRUE] ELSE rc
  /\ ret' = NoRet
  /\ UNCHANGED <<channel, isConnected, chanOpen, listeners, broker, declared>>
  /\ UNCHANGED <<call, setupIdx, retries, maxRetries>>
  /\ UNCHANGED <<closeVars, queueVars, hist>>

\* line 15: amqp.connect rejects (broker unreachable, refused, auth failure)
ConnectRefused ==
  /\ pc = "c_connect"
  /\ AfterConnectThrow
  /\ UNCHANGED setupIdx
  /\ UNCHANGED <<lifeVars, closeVars, queueVars, hist>>

\* lines 16-33: createChannel resolves, the listeners are registered,
\* isConnected is set and the first declaration is issued
ChannelCreated ==
  /\ pc = "c_channel"
  /\ connection \in connOpen
  /\ channel' = connection
  /\ chanOpen' = chanOpen \cup {connection}
  /\ listeners' = listeners \cup {connection}
  /\ isConnected' = TRUE
  /\ declared' = [ch |-> connection, items |-> <<>>]
  /\ pc' = "c_setup" /\ setupIdx' = 1
  /\ ret' = NoRet
  /\ UNCHANGED <<connection, nextConn, connOpen, broker>>
  /\ UNCHANGED <<call, retries, maxRetries, rc>>
  /\ UNCHANGED <<closeVars, queueVars, hist>>

\* line 16: createChannel rejects (connection gone, or channel refused)
ChannelRefused ==
  /\ pc = "c_channel"
  /\ AfterConnectThrow
  /\ UNCHANGED setupIdx
  /\ UNCHANGED <<lifeVars, closeVars, queueVars, hist>>

\* assertQueue that deletes the queue first: its bindings go with it
DeclareDroppingBindings(b, item) ==
  IF item.kind = "queue"
  THEN { o \in b : ~(o.kind = "binding" /\ o.queue = item.name) } \cup {item}
  ELSE b \cup {item}

\* lines 45-64: assertExchange / assertQueue / bindQueue of item on a broker
\* holding the objects b: the object is created if absent, and a
\* declaration equal to an existing object changes nothing
Declare(b, item) == b \cup {item}

\* lines 45-64: the awaited declaration resolves; after the last one
\* setupExchangesAndQueues returns and connect() returns the channel
SetupDeclared ==
  /\ pc = "c_setup"
  /\ channel \in chanOpen
  /\ broker' = Declare(broker, SetupItems[setupIdx])
  /\ declared' = [declared EXCEPT !.items = Append(@, SetupItems[setupIdx])]
  /\ IF setupIdx < Len(SetupItems)
     THEN /\ setupIdx' = setupIdx + 1
          /\ ret' = NoRet
          /\ UNCHANGED <<pc, call, retries, maxRetries, rc, hist>>
     ELSE /\ setupIdx' = 0
          /\ AfterConnectReturn
          /\ hist' = [everOK |-> TRUE, state |-> "Connected",
                      evtSince |-> FALSE, closeSince |-> FALSE]
  /\ UNCHANGED <<connection, channel, isConnected, nextConn, connOpen, chanOpen,
                 listeners>>
  /\ UNCHANGED <<closeVars, queueVars>>

\* lines 45-64: the awaited declaration rejects because the channel is
\* closed: the connection was lost, close() closed it, or the broker refused
\* the declaration (a conflicting object, no permission) with a channel
\* exception; lines 67-70 and 36-39 rethrow
SetupFailed ==
  /\ pc = "c_setup"
  /\ channel \notin chanOpen
  /\ declared' = NoDecl
  /\ setupIdx' = 0
  /\ AfterConnectThrow
  /\ UNCHANGED <<connection, channel, isConnected, nextConn, connOpen, chanOpen,
                 listeners, broker>>
  /\ UNCHANGED <<closeVars, queueVars, hist>>

\* line 175: the delay timer fires; the loop test follows
WaitDone ==
  /\ pc = "r_wait"
  /\ LoopTest(retries, maxRetries, [rc EXCEPT !.trace = Append(@, "w")])
  /\ UNCHANGED setupIdx
  /\ UNCHANGED <<lifeVars, closeVars, queueVars, hist>>

\* ------------------------------------------------------ broker events
\* connection c is lost: its channel goes with it, and the listeners of
\* lines 19-27 (if registered on c) set isConnected to false
ConnDrop(c) ==
  /\ c \in connOpen
  /\ connOpen' = connOpen \ {c}
  /\ chanOpen' = chanOpen \ {c}
  /\ consumers' = consumers \ {c}
  /\ ready' = ReadyAfterClose({c})
  /\ del' = DelAfterClose({c})
  /\ isConnected' = IF c \in listeners THEN FALSE ELSE isConnected
  /\ hist' = IF c \in listeners
             THEN [hist EXCEPT !.evtSince = TRUE,
                               !.state = IF c = connection THEN "Disconnected" ELSE @]
             ELSE hist
  /\ ret' = NoRet
  /\ UNCHANGED <<connection, channel, nextConn, listeners, broker, declared>>
  /\ UNCHANGED <<callVars, closeVars, payload, envelope, invoked, users, sent, nDel, tags>>

\* the broker closes channel c alone (a channel exception); no listener of
\* the manager observes it
ChannelException(c) ==
  /\ c \in chanOpen
  /\ chanOpen' = chanOpen \ {c}
  /\ consumers' = consumers \ {c}
  /\ ready' = ReadyAfterClose({c})
  /\ del' = DelAfterClose({c})
  /\ ret' = NoRet
  /\ UNCHANGED <<connection, channel, isConnected, nextConn, connOpen,
                 listeners, broker, declared>>
  /\ UNCHANGED <<callVars, closeVars, payload, envelope, invoked, users, sent, nDel, tags, hist>>

\* ------------------------------------------------------------- queries
\* amqplib's connection object has no field `closed`: the read is undefined
ConnectionClosedField(c) == FALSE

\* lines 158-160: this.isConnected && this.connection && !this.connection.closed
IsHealthy == isConnected /\ connection # NULL /\ ~ConnectionClosedField(connection)

\* --------------------------------------------------------------- close
\* close() returned; catch is TRUE when it left through lines 152-154.
\* The record keeps the connection this.connection referred to at the call,
\* whether this.channel was open then, and the close operations issued.
CloseReturn(clNow, catch) ==
  /\ pcS' = "idle"
  /\ cl' = ClIdle
  /\ ret' = [kind |-> "close", res |-> IF catch THEN "catch" ELSE "normal",
             conn |-> clNow.conn, chanWasOpen |-> clNow.chanWasOpen,
             log |-> clNow.log]
  /\ hist' = [hist EXCEPT !.state = "Disconnected", !.closeSince = TRUE]

\* lines 147-150, run without a suspension after the channel part: issue
\* connection.close() and suspend, or throw into the catch, or (no
\* connection) set isConnected to false and return
CloseConnPart(clNow) ==
  IF connection = NULL
  THEN /\ isConnected' = FALSE
       /\ CloseReturn(clNow, FALSE)
       /\ UNCHANGED <<connOpen, chanOpen, consumers, ready, del>>
  ELSE IF connection \in connOpen
  THEN /\ connOpen' = connOpen \ {connection}
       /\ chanOpen' = chanOpen \ {connection}
       /\ consumers' = consumers \ {connection}
       /\ ready' = ReadyAfterClose({connection})
       /\ del' = DelAfterClose({connection})
       /\ pcS' = "cl_conn"
       /\ cl' = [clNow EXCEPT !.log = Append(@, <<"connection", connection>>)]
       /\ ret' = NoRet
       /\ hist' = [hist EXCEPT !.closeSince = TRUE]
       /\ UNCHANGED isConnected
  ELSE /\ CloseReturn(clNow, TRUE)
       /\ UNCHANGED <<isConnected, connOpen, chanOpen, consumers, ready, del>>

\* the signal handler invokes close(): lines 143-146 up to the first await
StartClose ==
  /\ pcS = "idle" /\ closes < MaxCloses
  /\ closes' = closes + 1
  /\ LET clNow == [conn |-> connection, chanWasOpen |-> channel \in chanOpen,
                   log |-> <<>>]
     IN IF channel = NULL
        THEN CloseConnPart(clNow)
        ELSE IF channel \in chanOpen
        THEN /\ chanOpen' = chanOpen \ {channel}
             /\ consumers' = consumers \ {channel}
             /\ ready' = ReadyAfterClose({channel})
             /\ del' = DelAfterClose({channel})
             /\ pcS' = "cl_channel"
             /\ cl' = [clNow EXCEPT !.log = Append(@, <<"channel", channel>>)]
             /\ ret' = NoRet
             /\ hist' = [hist EXCEPT !.closeSince = TRUE]
             /\ UNCHANGED <<isConnected, connOpen>>
        ELSE /\ CloseReturn(clNow, TRUE)
             /\ UNCHANGED <<isConnected, connOpen, chanOpen, consumers, ready, del>>
  /\ UNCHANGED <<connection, channel, nextConn, listeners, broker, declared>>
  /\ UNCHANGED <<callVars, payload, envelope, invoked, users, sent, nDel, tags>>

\* line 145: await this.channel.close() resolves; lines 147-148 follow
CloseChannelDone ==
  /\ pcS = "cl_channel"
  /\ CloseConnPart(cl)
  /\ UNCHANGED <<connection, channel, nextConn, listeners, broker, declared>>
  /\ UNCHANGED <<callVars, closes, payload, envelope, invoked, users, sent, nDel, tags>>

\* line 148: await this.connection.close() resolves (the 'close' listener
\* has run); line 150 sets isConnected to false and close() returns
CloseConnDone ==
  /\ pcS = "cl_conn"
  /\ isConnected' = FALSE
  /\ CloseReturn(cl, FALSE)
  /\ UNCHANGED <<connection, channel, nextConn, connOpen, chanOpen, listeners,
                 broker, declared>>
  /\ UNCHANGED <<callVars, closes, queueVars>>

\* ------------------------------------------- publishMessage / consume
\* lines 75-77 and 107-109: if (!this.isConnected) throw
ConnectedCheck == isConnected

\* an options argument of publishMessage, as far as the two keys that
\* publishMessage sets itself: "absent" when the object has no such key, else
\* the value the caller gave ("undefined": the key is present and undefined;
\* "caller": a timestamp chosen by the caller)
Options ==
  [persistent : {"absent", "true", "false"},
   timestamp : {"absent", "caller", "undefined"}]

\* line 73: options = {}
NoOptions == [persistent |-> "absent", timestamp |-> "absent"]

\* the options of a call that handed nothing to the channel
NotPublished == [persistent |-> "none", timestamp |-> "none"]

\* lines 80-84: { persistent: true, timestamp: Date.now(), ...options }:
\* the keys of options are spread after the two defaults
PublishOptions(options) ==
  [persistent |-> IF options.persistent = "absent" THEN "true"
                  ELSE options.persistent,
   timestamp |-> IF options.timestamp = "absent" THEN "now"
                 ELSE options.timestamp]

\* lines 93-98 with the channel's false passed on to the caller
PublishResultReturnsFalse(published) == IF published THEN "true" ELSE "false"

\* lines 93-98: return true when channel.publish returned true, throw
\* otherwise
PublishResult(published) == IF published THEN "true" ELSE "PublishFailed"

\* lines 75-98: how publishMessage ends for its caller: the throw of line
\* 76, the error channel.publish throws on a closed channel, or lines 93-98
PublishOutcome(accepted) ==
  IF ~ConnectedCheck THEN "NotConnected"
  ELSE IF channel \notin chanOpen THEN "ChannelClosed"
  ELSE PublishResult(accepted)

\* publishMessage(exchange, routingKey, message, options): lines 73-103.
\* accepted is what channel.publish returns when the channel is open. ret
\* records the outcome for the caller (res), whether channel.publish was
\* invoked (chanOp), what it returned (published: "true", "false", "threw",
\* or "notcalled") and the options it was given (opts)
PublishMessage(accepted, options) ==
  /\ ret' = IF ~ConnectedCheck
            THEN [kind |-> "publish", state |-> hist.state,
                  res |-> PublishOutcome(accepted), chanOp |-> FALSE,
                  published |-> "notcalled", opts |-> NotPublished]
            ELSE IF channel \notin chanOpen
            THEN [kind |-> "publish", state |-> hist.state,
                  res |-> PublishOutcome(accepted), chanOp |-> TRUE,
                  published |-> "threw", opts |-> PublishOptions(options)]
            ELSE [kind |-> "publish", state |-> hist.state,
                  res |-> PublishOutcome(accepted), chanOp |-> TRUE,
                  published |-> IF accepted THEN "true" ELSE "false",
                  opts |-> PublishOptions(options)]
  /\ UNCHANGED <<lifeVars, callVars, closeVars, queueVars, hist>>

\* consumeMessages(queue, callback): lines 105-140; channel.consume
\* registers the consumer on this.channel
ConsumeMessages ==
  /\ ret' = IF ~ConnectedCheck
            THEN [kind |-> "consume", state |-> hist.state,
                  res |-> "NotConnected", chanOp |-> FALSE]
            ELSE [kind |-> "consume", state |-> hist.state,
                  res |-> IF channel \notin chanOpen THEN "ChannelClosed" ELSE "ok",
                  chanOp |-> TRUE]
  /\ consumers' = IF ConnectedCheck /\ channel \in chanOpen
                  THEN consumers \cup {channel} ELSE consumers
  /\ UNCHANGED <<lifeVars, callVars, closeVars, hist>>
  /\ UNCHANGED <<ready, payload, envelope, invoked, users, sent, del, nDel, tags>>

\* ---------------------------------------------------- consumer callback
\* lines 117-132 with nack called without requeue
CallbackOpsNoRequeue(parsed, outcome, open) ==
  LET ackTried == parsed /\ outcome = "ok"
      nackTried == ~parsed \/ outcome = "err" \/ (ackTried /\ ~open)
  IN [handler |-> parsed, ack |-> ackTried, nack |-> nackTried,
      requeue |-> FALSE, unhandled |-> nackTried /\ ~open]

\* lines 117-132 with the ack moved out of the try: it is called however
\* the handler ended
CallbackOpsAckAlways(parsed, outcome, open) ==
  LET ackTried == parsed
      nackTried == ~parsed \/ outcome = "err" \/ (ackTried /\ ~open)
  IN [handler |-> parsed, ack |-> ackTried, nack |-> nackTried,
      requeue |-> TRUE, unhandled |-> nackTried /\ ~open]

\* lines 117-132: what the callback of consumeMessages does for one
\* delivery, from whether JSON.parse succeeded, how the handler ended and
\* whether this.channel is open when ack/nack is called. ack (line 125) is
\* inside the try: when it throws, the catch calls nack (line 130); when
\* nack throws, the callback's promise rejects unhandled. requeue is the
\* third argument of nack.
CallbackOps(parsed, outcome, open) ==
  LET ackTried == parsed /\ outcome = "ok"
      nackTried == ~parsed \/ outcome = "err" \/ (ackTried /\ ~open)
  IN [handler |-> parsed, ack |-> ackTried, nack |-> nackTried,
      requeue |-> TRUE, unhandled |-> nackTried /\ ~open]

\* the callback for delivery d (record rec) ends: its ack/nack goes to
\* this.channel; rdy is the queue before. The broker settles the unacked
\* delivery of that channel carrying the tag, or, when the channel knows no
\* such tag, closes the channel (channel exception). ret records what the
\* callback did: whether the payload parsed (and so the handler ran), how
\* the handler ended, which of ack and nack were called, the requeue
\* argument, whether the callback's promise rejected, whether
\* this.channel was the channel of the delivery, the message and its parsed
\* content, and what the handler h reports.
Settle(d, rec, h, ops, rdy) ==
  LET x == channel
      open == x \in chanOpen
      eff == IF ~open THEN "none" ELSE IF ops.ack THEN "ack"
             ELSE IF ops.nack THEN "nack" ELSE "none"
      del1 == [del EXCEPT ![d] = [rec EXCEPT !.st = "done"]]
      tgt == { e \in DelIds : del1[e].ch = x /\ del1[e].tag = rec.tag
                              /\ del1[e].broker = "unacked" }
      stray == eff # "none" /\ tgt = {}
      lost == IF stray
              THEN { e \in DelIds : del1[e].ch = x /\ del1[e].broker = "unacked" }
              ELSE {}
      back == IF eff = "nack" /\ ops.requeue THEN tgt ELSE {}
      gone == IF eff = "ack" \/ (eff = "nack" /\ ~ops.requeue) THEN tgt ELSE {}
  IN /\ del' = [e \in DelIds |-> Forget(
                  IF eff # "none" /\ e \in tgt
                  THEN [del1[e] EXCEPT !.broker =
                          IF eff = "ack" THEN "acked"
                          ELSE IF ops.requeue THEN "requeued" ELSE "dropped"]
                  ELSE IF e \in lost THEN [del1[e] EXCEPT !.broker = "requeued"]
                  ELSE del1[e])]
     /\ ready' = rdy \cup { del1[e].msg : e \in back \cup lost }
     /\ payload' = [m \in Msgs |-> IF m \in { del1[e].msg : e \in gone }
                                   THEN "none" ELSE payload[m]]
     /\ envelope' = [m \in Msgs |-> IF m \in { del1[e].msg : e \in gone }
                                    THEN NoEnv ELSE envelope[m]]
     /\ chanOpen' = IF stray THEN chanOpen \ {x} ELSE chanOpen
     /\ consumers' = IF stray THEN consumers \ {x} ELSE consumers
     /\ ret' = [kind |-> "callback", parsed |-> ops.handler,
                outcome |-> h.outcome, ack |-> ops.ack, nack |-> ops.nack,
                requeue |-> ops.nack /\ ops.requeue, unhandled |-> ops.unhandled,
                sameCh |-> x = rec.ch, msg |-> rec.msg, content |-> rec.content,
                domain |-> h.domain, emailed |-> h.emailed, events |-> h.events]

\* a publisher puts a message on the consumed queue; ok says whether its
\* payload is parseable JSON, e is the object the JSON text holds
Enqueue(ok, e) ==
  /\ sent < MaxMsgs
  /\ sent' = sent + 1
  /\ payload' = [payload EXCEPT ![sent + 1] = IF ok THEN "json" ELSE "garbage"]
  /\ envelope' = [envelope EXCEPT ![sent + 1] = IF ok THEN e ELSE NoEnv]
  /\ ready' = ready \cup {sent + 1}
  /\ ret' = NoRet
  /\ UNCHANGED <<lifeVars, callVars, closeVars, hist>>
  /\ UNCHANGED <<consumers, invoked, users, del, nDel, tags>>

\* a JSON.parse that returns for every payload
JsonParsesAnything(m) == payload[m] # "none"

\* line 119: JSON.parse(msg.content.toString()) returns (TRUE) or throws
JsonParses(m) == payload[m] = "json"

\* line 116: the broker delivers message m to the consumer on channel c
\* and amqplib invokes the callback, which runs up to its first await:
\* JSON.parse (line 119), then either the handler is started (line 122) or
\* the catch runs (lines 126-131)
Deliver(m, c) ==
  /\ m \in ready /\ c \in consumers /\ nDel < MaxDeliveries
  /\ nDel' = nDel + 1
  /\ tags' = [tags EXCEPT ![c] = @ + 1]
  /\ LET d == nDel + 1
         rec == [msg |-> m, ch |-> c, tag |-> tags[c] + 1,
                 st |-> "running", broker |-> "unacked",
                 content |-> IF JsonParses(m) THEN envelope[m] ELSE NoEnv]
     IN IF JsonParses(m)
        THEN /\ del' = [del EXCEPT ![d] = rec]
             /\ ready' = ready \ {m}
             /\ invoked' = [invoked EXCEPT ![m] = @ + 1]
             /\ ret' = NoRet
             /\ UNCHANGED <<chanOpen, consumers, payload, envelope>>
        ELSE /\ Settle(d, rec, NoHandler,
                       CallbackOps(FALSE, "none", channel \in chanOpen), ready \ {m})
             /\ UNCHANGED invoked
  /\ UNCHANGED <<connection, channel, isConnected, nextConn, connOpen, listeners,
                 broker, declared>>
  /\ UNCHANGED <<callVars, closeVars, users, sent, hist>>

\* a handler about which only the way it ends is known
Handler(outcome) ==
  [outcome |-> outcome, domain |-> TRUE, emailed |-> FALSE, events |-> <<>>]

\* line 122: await callback(content, msg) settles, the handler reporting h
\* (h.outcome is "ok" or "err"); lines 125-131 follow
HandlerReturn(d, h) ==
  /\ del[d].st = "running"
  /\ Settle(d, del[d], h,
            CallbackOps(TRUE, h.outcome, channel \in chanOpen), ready)
  /\ UNCHANGED <<connection, channel, isConnected, nextConn, connOpen, listeners,
                 broker, declared>>
  /\ UNCHANGED <<callVars, closeVars, invoked, users, sent, nDel, tags, hist>>

\* ---------------------------------------------------------------- routing
\* a topic exchange (assertExchange(..., 'topic'), lines 45-46) compares the
\* routing key of a message with the pattern of a binding word by word: "*"
\* stands for exactly one word, "#" for zero or more
RECURSIVE Matches(_, _)

\* a comparison that knows no wildcard
MatchesLiterally(pattern, key) == pattern = key

Matches(pattern, key) ==
  IF pattern = <<>> THEN key = <<>>
  ELSE IF Head(pattern) = "#"
       THEN Matches(Tail(pattern), key)
            \/ (key # <<>> /\ Matches(pattern, Tail(key)))
       ELSE /\ key # <<>>
            /\ Head(pattern) \in {"*", Head(key)}
            /\ Matches(Tail(pattern), Tail(key))

\* the queues that a message published to exchange with routing key key is
\* placed in, one copy each, when the broker holds the objects b
Route(exchange, key, b) ==
  { q \in {UserEventsQueue, EmailRequestsQueue, EmailResponsesQueue} :
      /\ Queue(q) \in b
      /\ \E p \in {UserRegisteredKey, EmailAnyPattern} :
            Binding(q, exchange, p) \in b /\ Matches(p, key) }

\* every declaration of setupExchangesAndQueues is held by the broker
SetupDone(b) == \A i \in 1..Len(SetupItems) : SetupItems[i] \in b

\* ------------------------------------------------------- email service
\* one publishMessage(exchange, routingKey, message) of this manager, as
\* its caller and the broker see it: how the call ends (res), whether the
\* message was handed to an open channel (written), the object that a
\* consumer will read, and the queues the broker places it in
Publication(exchange, key, message, accepted) ==
  [res |-> PublishOutcome(accepted),
   written |-> ConnectedCheck /\ channel \in chanOpen,
   event |-> Transmit(message), exchange |-> exchange, key |-> key,
   queues |-> IF ConnectedCheck /\ channel \in chanOpen
              THEN Route(exchange, key, broker) ELSE {}]

\* the publications that reached the channel
Written(pubs) == SelectSeq(pubs, LAMBDA p : p.written)

\* handleUserRegisteredEvent with both result events built without the
\* correlationId argument
EmailHandlerFreshIds(eventData, sendOk, accepted1, accepted2) ==
  IF eventData.type # UserRegisteredType
  THEN [outcome |-> "ok", domain |-> FALSE, emailed |-> FALSE, events |-> <<>>]
  ELSE IF eventData.data = NoData
  THEN [outcome |-> "err", domain |-> FALSE, emailed |-> FALSE, events |-> <<>>]
  ELSE LET result == [body |-> eventData.data.body, when |-> "text"]
           sentPub == Publication(EmailExchange, EmailSentKey,
                        ToJSON(BaseEvent(EmailSentType, result, "null",
                                         "t2", "g1")), accepted1)
           failedPub == Publication(EmailExchange, EmailFailedKey,
                          ToJSON(BaseEvent(EmailFailedType, result, "null",
                                           "t2", "g2")), accepted2)
       IN IF sendOk /\ sentPub.res = "true"
          THEN [outcome |-> "ok", domain |-> TRUE, emailed |-> TRUE,
                events |-> <<sentPub>>]
          ELSE [outcome |-> "err", domain |-> TRUE, emailed |-> sendOk,
                events |-> Written((IF sendOk THEN <<sentPub>> ELSE <<>>)
                                   \o <<failedPub>>)]

\* handleUserRegisteredEvent(eventData, msg), src/email-service/app.js lines
\* 114-181, as what it reports when it ends. sendOk: sendEmail resolved;
\* accepted1, accepted2: what channel.publish returns in the publishMessage
\* of lines 149-153 and of lines 167-171.
\*  - lines 118-121: an event of another type (or of none) is ignored and
\*    the handler returns normally
\*  - lines 123-129: the templates read userData.firstName, which throws
\*    when eventData.data is undefined; the outer catch rethrows
\*  - lines 131-155: sendEmail, then email.sent is published with the
\*    correlationId of eventData
\*  - lines 157-175: when sendEmail or the publishMessage of email.sent
\*    threw, email.failed is published and the error is rethrown (an error
\*    of this second publishMessage is thrown instead)
\* The handler's awaits are taken together with its return: the
\* specifications that use it keep the connection uninterrupted, so the
\* manager state that publishMessage reads is the same at each of them
EmailHandler(eventData, sendOk, accepted1, accepted2) ==
  IF eventData.type # UserRegisteredType
  THEN [outcome |-> "ok", domain |-> FALSE, emailed |-> FALSE, events |-> <<>>]
  ELSE IF eventData.data = NoData
  THEN [outcome |-> "err", domain |-> FALSE, emailed |-> FALSE, events |-> <<>>]
  ELSE LET result == [body |-> eventData.data.body, when |-> "text"]
           sentPub == Publication(EmailExchange, EmailSentKey,
                        ToJSON(BaseEvent(EmailSentType, result,
                                         eventData.correlationId,
                                         "t2", "g1")), accepted1)
           failedPub == Publication(EmailExchange, EmailFailedKey,
                          ToJSON(BaseEvent(EmailFailedType, result,
                                           eventData.correlationId,
                                           "t2", "g2")), accepted2)
       IN IF sendOk /\ sentPub.res = "true"
          THEN [outcome |-> "ok", domain |-> TRUE, emailed |-> TRUE,
                events |-> <<sentPub>>]
          ELSE [outcome |-> "err", domain |-> TRUE, emailed |-> sendOk,
                events |-> Written((IF sendOk THEN <<sentPub>> ELSE <<>>)
                                   \o <<failedPub>>)]

\* -------------------------------------------------------- user service
Usernames == {"u1", "u2"}

\* lines 237-313 with the event published before the username is looked up
\* and the row inserted
RegisterOutcomePublishFirst(valid, exists, inserted, up, accepted) ==
  [status |-> IF ~valid THEN 400
              ELSE IF ~(up /\ accepted) THEN 500
              ELSE IF exists THEN 409
              ELSE IF inserted THEN 201 ELSE 500,
   stored |-> valid /\ up /\ accepted /\ ~exists /\ inserted,
   written |-> valid /\ up]

\* the control flow of POST /api/users/register, lines 237-313. valid:
\* username, email and password are given (line 241); exists: the SELECT
\* finds a row (line 254); inserted: the INSERT resolves (it rejects on a
\* database error or on the UNIQUE constraint when a concurrent request
\* inserted the name after this one's SELECT); up: the manager is connected
\* with an open channel when publishMessage is called; accepted: what
\* channel.publish returns. Result: the response status, whether this
\* request wrote the row (stored) and whether the event was handed to the
\* channel (written). Every throw goes to the catch of lines 307-313 (500).
RegisterOutcome(valid, exists, inserted, up, accepted) ==
  [status |-> IF ~valid THEN 400
              ELSE IF exists THEN 409
              ELSE IF ~inserted THEN 500
              ELSE IF up /\ accepted THEN 201 ELSE 500,
   stored |-> valid /\ ~exists /\ inserted,
   written |-> valid /\ ~exists /\ inserted /\ up]

\* POST /api/users/register, lines 234-314, for a request whose
\* correlationId (line 235) is id; the other parameters are those of
\* RegisterOutcome. The service listens only after its connect() has
\* returned (startServer), hence after the topology was declared. The
\* published event is placed in the queues of Route, of which email.requests
\* is the consumed queue. ret records the response, the correlationId of
\* the response, and the publication. The request is taken as one step; what
\* a concurrent request can change between its awaits is the table, which
\* the parameter inserted covers
RegisterUser(username, valid, id, inserted, up, accepted) ==
  /\ SetupDone(broker)
  /\ LET out == RegisterOutcome(valid, username \in users, inserted, up, accepted)
         event == BaseEvent(UserRegisteredType,
                            [body |-> username, when |-> "Date"], id, "t1", "g0")
         queues == IF out.written
                   THEN Route(UserExchange, UserRegisteredKey, broker) ELSE {}
         arrives == EmailRequestsQueue \in queues
     IN /\ arrives => sent < MaxMsgs
        /\ users' = IF out.stored THEN users \cup {username} ELSE users
        /\ sent' = IF arrives THEN sent + 1 ELSE sent
        /\ payload' = IF arrives THEN [payload EXCEPT ![sent + 1] = "json"]
                      ELSE payload
        /\ envelope' = IF arrives
                       THEN [envelope EXCEPT ![sent + 1] = Transmit(ToJSON(event))]
                       ELSE envelope
        /\ ready' = IF arrives THEN ready \cup {sent + 1} ELSE ready
        /\ ret' = [kind |-> "register",
                   status |-> out.status,
                   username |-> username,
                   existed |-> username \in users,
                   correlationId |-> id,
                   stored |-> out.stored,
                   written |-> out.written,
                   accepted |-> out.written /\ accepted,
                   event |-> IF out.written THEN Transmit(ToJSON(event)) ELSE NoEnv,
                   queues |-> queues,
                   msg |-> IF arrives THEN sent + 1 ELSE NULL]
  /\ UNCHANGED <<lifeVars, callVars, closeVars, hist>>
  /\ UNCHANGED <<consumers, invoked, del, nDel, tags>>

\* ------------------------------------------------------ specifications
\* the steps of connect() after its call, and reconnect's timer
ConnectSteps ==
  \/ ConnectOpened
  \/ ConnectRefused
  \/ ChannelCreated
  \/ ChannelRefused
  \/ SetupDeclared
  \/ SetupFailed
  \/ WaitDone

CloseSteps ==
  \/ StartClose
  \/ CloseChannelDone
  \/ CloseConnDone

BrokerEvents ==
  \/ \E c \in ConnIds : ConnDrop(c)
  \/ \E c \in ConnIds : ChannelException(c)

\* The manager under an arbitrary caller: connect(), reconnect(n),
\* publishMessage and consumeMessages in any order and at any moment, the
\* signal handler's close() concurrently, and the broker's events.
Next ==
  \/ StartConnect
  \/ \E n \in 0..MaxRetries : StartReconnect(n)
  \/ ConnectSteps
  \/ CloseSteps
  \/ BrokerEvents
  \/ \E a \in BOOLEAN : PublishMessage(a, NoOptions)
  \/ ConsumeMessages

Spec == Init /\ [][Next]_vars

\* A consuming service (src/email-service/app.js, startService): connect()
\* once at startup (lines 235-238), consumeMessages when connected (lines
\* 241-244), the deliveries of the queue and their callbacks, close() on the
\* signal (lines 259-262). reconnect(n), which the manager offers for
\* recovery, is called after a loss of the connection, and the service then
\* subscribes again.
NextConsumer ==
  \/ (nextConn = 0 /\ StartConnect)
  \/ (hist.everOK /\ ~isConnected /\ \E n \in 1..MaxRetries : StartReconnect(n))
  \/ ConnectSteps
  \/ (pc = "idle" /\ hist.everOK /\ consumers = {} /\ ConsumeMessages)
  \/ CloseSteps
  \/ BrokerEvents
  \/ \E ok \in BOOLEAN : Enqueue(ok, AnEvent)
  \/ \E m \in Msgs, c \in ConnIds : Deliver(m, c)
  \/ \E d \in DelIds, o \in {"ok", "err"} : HandlerReturn(d, Handler(o))

SpecConsumer == Init /\ [][NextConsumer]_vars

\* A publishing service (the user service, startServer): connect() once at
\* startup, publishMessage with any options while it runs, close() on the
\* signal.
NextPublish ==
  \/ (nextConn = 0 /\ StartConnect)
  \/ ConnectOpened
  \/ ConnectRefused
  \/ ChannelCreated
  \/ ChannelRefused
  \/ SetupDeclared
  \/ SetupFailed
  \/ CloseSteps
  \/ BrokerEvents
  \/ \E a \in BOOLEAN, o \in Options : PublishMessage(a, o)

SpecPublish == Init /\ [][NextPublish]_vars

\* the two handlers of the redelivery scenarios, as callbacks of
\* consumeMessages (line 122): for a message carrying FirstId a handler that
\* raises on its first two invocations for the message and succeeds on the
\* third, for a message carrying OtherId a handler that raises on every
\* invocation. rec is the delivery record of the invocation that ends
FirstId == "c1"
OtherId == "c2"
RetryOutcome(rec) ==
  IF rec.content.correlationId = FirstId /\ invoked[rec.msg] >= 3
  THEN "ok" ELSE "err"

\* A consuming service on an uninterrupted connection: connect() and
\* consumeMessages at startup, messages arriving on the queue (each carrying
\* FirstId or OtherId), their deliveries, and the handlers of RetryOutcome.
NextRetry ==
  \/ (nextConn = 0 /\ StartConnect)
  \/ ConnectOpened
  \/ ChannelCreated
  \/ SetupDeclared
  \/ (pc = "idle" /\ hist.everOK /\ consumers = {} /\ ConsumeMessages)
  \/ \E id \in {FirstId, OtherId} :
        Enqueue(TRUE, [AnEvent EXCEPT !.correlationId = id])
  \/ \E m \in Msgs, c \in ConnIds : Deliver(m, c)
  \/ \E d \in DelIds : HandlerReturn(d, Handler(RetryOutcome(del[d])))

SpecRetry == Init /\ [][NextRetry]_vars

\* the inputs of an envelope round trip: event types, data objects,
\* correlationId arguments (supplied, or falsy), instants and generated ids
EventTypes == {UserRegisteredType, EmailSentType, EmailFailedType}
EventData == {NoData} \cup [body : {"u1", "u2"}, when : {"Date", "text", "none"}]
Ids == {"c1", "c2"}
CorrelationArgs == Ids \cup {"absent", "null", ""}

\* an envelope is created (new BaseEvent(type, data, correlationId)), handed
\* to publishMessage as event.toJSON() (written as JSON text, line 79), read
\* by a consumer (line 119) and rebuilt with BaseEvent.fromJSON. now/fresh
\* and now2/fresh2 are the clock and the generated id at the two
\* constructions. ret records the argument, the envelope and what came back
RoundTrip(type, data, correlationId, now, fresh, now2, fresh2) ==
  /\ ret' = [kind |-> "roundtrip", supplied |-> correlationId,
             event |-> BaseEvent(type, data, correlationId, now, fresh),
             back |-> FromJSON(
                        Transmit(ToJSON(BaseEvent(type, data, correlationId,
                                                  now, fresh))),
                        now2, fresh2)]
  /\ UNCHANGED <<lifeVars, callVars, closeVars, queueVars, hist>>

\* envelopes of every kind making the round trip
NextEnvelope ==
  \E type \in EventTypes, data \in EventData, id \in CorrelationArgs,
     now \in {"t1", "t2"}, now2 \in {"t2", "t3"} :
       RoundTrip(type, data, id, now, "g1", now2, "g2")

SpecEnvelope == Init /\ [][NextEnvelope]_vars

\* The two services on uninterrupted connections, the user service being
\* the only publisher on the consumed queue: the email service connects and
\* consumes email.requests with handleUserRegisteredEvent (startService),
\* the user service registers users and publishes user.registered, the
\* broker delivers and redelivers.
NextRegistration ==
  \/ (nextConn = 0 /\ StartConnect)
  \/ ConnectOpened
  \/ ChannelCreated
  \/ SetupDeclared
  \/ (pc = "idle" /\ hist.everOK /\ consumers = {} /\ ConsumeMessages)
  \/ \E u \in Usernames, valid \in BOOLEAN, id \in Ids, inserted \in BOOLEAN,
        up \in BOOLEAN, accepted \in BOOLEAN :
           RegisterUser(u, valid, id, inserted, up, accepted)
  \/ \E m \in Msgs, c \in ConnIds : Deliver(m, c)
  \/ \E d \in DelIds, sendOk \in BOOLEAN, a1 \in BOOLEAN, a2 \in BOOLEAN :
        HandlerReturn(d, EmailHandler(del[d].content, sendOk, a1, a2))

SpecRegistration == Init /\ [][NextRegistration]_vars

\* events on the consumed queue that the user service did not publish: a
\* user.registered event lacking type, data or timestamp, and an event of
\* another type
ForeignEvents ==
  { [AnEvent EXCEPT !.type = "absent"],
    [AnEvent EXCEPT !.data = NoData],
    [AnEvent EXCEPT !.timestamp = "absent"],
    [AnEvent EXCEPT !.type = EmailSentType] }

\* NextRegistration with other publishers putting events on the consumed
\* queue as well.
NextEvents ==
  \/ (nextConn = 0 /\ StartConnect)
  \/ ConnectOpened
  \/ ChannelCreated
  \/ SetupDeclared
  \/ (pc = "idle" /\ hist.everOK /\ consumers = {} /\ ConsumeMessages)
  \/ \E u \in Usernames, valid \in BOOLEAN, id \in Ids, inserted \in BOOLEAN,
        up \in BOOLEAN, accepted \in BOOLEAN :
           RegisterUser(u, valid, id, inserted, up, accepted)
  \/ \E e \in ForeignEvents : Enqueue(TRUE, e)
  \/ \E m \in Msgs, c \in ConnIds : Deliver(m, c)
  \/ \E d \in DelIds, sendOk \in BOOLEAN, a1 \in BOOLEAN, a2 \in BOOLEAN :
        HandlerReturn(d, EmailHandler(del[d].content, sendOk, a1, a2))

SpecEvents == Init /\ [][NextEvents]_vars

\* A consuming service on an uninterrupted connection whose queue receives
\* parseable and malformed payloads: connect() and consumeMessages at
\* startup, the deliveries and redeliveries, handlers ending either way.
NextMalformed ==
  \/ (nextConn = 0 /\ StartConnect)
  \/ ConnectOpened
  \/ ChannelCreated
  \/ SetupDeclared
  \/ (pc = "idle" /\ hist.everOK /\ consumers = {} /\ ConsumeMessages)
  \/ \E ok \in BOOLEAN : Enqueue(ok, AnEvent)
  \/ \E m \in Msgs, c \in ConnIds : Deliver(m, c)
  \/ \E d \in DelIds, o \in {"ok", "err"} : HandlerReturn(d, Handler(o))

SpecMalformed == Init /\ [][NextMalformed]_vars

\* ---------------------------------------------------------------- claims
\* C1: for every delivery whose callback has ended, exactly one of
\* channel.ack and channel.nack was invoked: never both, never neither.
C1_ExactlyOneOfAckNack ==
  ret.kind = "callback" => (ret.ack /\ ~ret.nack) \/ (ret.nack /\ ~ret.ack)

\* C2: a delivery whose payload does not parse is rejected without requeue:
\* nack is invoked with requeue = false.
C2_MalformedNackedWithoutRequeue ==
  (ret.kind = "callback" /\ ~ret.parsed) => (ret.nack /\ ~ret.requeue)

\* C3: for a delivery whose payload parses, ack is invoked if and only if
\* the handler completed without error, and nack with requeue = true if and
\* only if the handler raised an error.
C3_AckIffHandlerSucceeded ==
  (ret.kind = "callback" /\ ret.parsed) =>
     /\ ret.ack <=> (ret.outcome = "ok")
     /\ (ret.nack /\ ret.requeue) <=> (ret.outcome = "err")

\* C4: on one subscription (the consumer of one channel) at most one
\* handler is running at any time: no handler starts before the handler of
\* every earlier delivery has completed and its delivery is acked or nacked.
C4_OneHandlerAtATime ==
  \A c \in ConnIds :
     Cardinality({ d \in DelIds : del[d].ch = c /\ del[d].st = "running" }) <= 1

\* C5: publishMessage and consumeMessages called while the manager is not
\* connected (no connect() has succeeded, or an error/close event or close()
\* has followed the last success), with no connect() and no close() in
\* progress, fail with the not-connected error and invoke no channel
\* operation.
C5_NotConnectedFailsWithoutChannelOp ==
  (ret.kind \in {"publish", "consume"} /\ ret.state = "Disconnected"
     /\ pc = "idle" /\ pcS = "idle")
  => (ret.res = "NotConnected" /\ ~ret.chanOp)

\* the attempts and waits of a reconnect that exhausts n retries: n attempts
\* with one wait between each pair of consecutive attempts
AttemptsAndWaits(trace, n) ==
  /\ Len(trace) = IF n = 0 THEN 0 ELSE 2 * n - 1
  /\ \A i \in 1..Len(trace) : trace[i] = IF i % 2 = 1 THEN "a" ELSE "w"

\* C6: reconnect(n, delay) called while isConnected is false, with every
\* amqp.connect of the call rejected (the broker never reachable), ends by
\* throwing the exhausted error after exactly n attempts with one wait
\* between each pair of consecutive attempts; while the call runs it has
\* made at most n attempts and n - 1 waits.
C6_BoundedReconnect ==
  /\ (ret.kind = "reconnect" /\ ret.startDisc /\ ~ret.opened)
       => (ret.res = "exhausted" /\ AttemptsAndWaits(ret.trace, ret.n))
  /\ (call = "reconnect" /\ rc.startDisc /\ ~rc.opened)
       => (retries < maxRetries /\ Len(rc.trace) <= 2 * maxRetries - 1)

\* C6 witness: a reconnect with the largest retry count, started
\* disconnected, whose every attempt was refused, has just thrown
C6_Witness ==
  /\ ret.kind = "reconnect" /\ ret.startDisc /\ ~ret.opened
  /\ ret.n = MaxRetries /\ ret.res = "exhausted" /\ Len(ret.trace) >= 3

\* C7: when close() has returned the manager is Disconnected: isConnected
\* is false and isHealthy() is false.
C7_CloseLeavesDisconnected ==
  ret.kind = "close" => (~isConnected /\ ~IsHealthy)

\* C8: when close() has returned, the connection the manager held is closed,
\* and close() closed the channel before it closed the connection.
C8_CloseClosesChannelThenConnection ==
  ret.kind = "close" =>
     /\ ret.conn # NULL => ret.conn \notin connOpen
     /\ \A i, j \in 1..Len(ret.log) :
          (ret.log[i][1] = "channel" /\ ret.log[j][1] = "connection") => i < j

\* C9: with no connect() and no close() in progress, isHealthy() is false if
\* no connect() has ever succeeded or a connection error/close event has
\* fired since the last success, and true after a success that no such
\* event and no close() has followed.
C9_IsHealthyReflectsState ==
  (pc = "idle" /\ pcS = "idle") =>
     /\ (~hist.everOK \/ hist.evtSince) => ~IsHealthy
     /\ (hist.everOK /\ ~hist.evtSince /\ ~hist.closeSince) => IsHealthy

\* the objects C10 requires: both exchanges, the three queues, both bindings
Topology ==
  { Exchange(UserExchange), Exchange(EmailExchange),
    Queue(UserEventsQueue), Queue(EmailRequestsQueue), Queue(EmailResponsesQueue),
    Binding(EmailRequestsQueue, UserExchange, UserRegisteredKey),
    Binding(EmailResponsesQueue, EmailExchange, EmailAnyPattern) }

\* C10: when connect() returns successfully, directly or inside reconnect(),
\* both exchanges, the three queues and both bindings have been declared on
\* the channel created by this connect(), and the broker holds them.
C10_TopologyDeclaredOnReturn ==
  (ret.kind \in {"connect", "reconnect"} /\ ret.res = "ok") =>
     /\ declared.ch = channel /\ channel = connection
     /\ { declared.items[i] : i \in 1..Len(declared.items) } = Topology
     /\ Topology \subseteq broker

\* C10 witness: a reconnect() has just succeeded on a second connection
C10_Witness ==
  ret.kind = "reconnect" /\ ret.res = "ok" /\ connection = 2 /\ channel = 2

\* C11: whenever connect() returns successfully, directly or inside
\* reconnect(), isConnected is true at that moment, whatever connection
\* error/close events interleave with the steps of connect() (no close() is
\* called in the run).
C11_ConnectedOnSuccessfulReturn ==
  (ret.kind \in {"connect", "reconnect"} /\ ret.res = "ok" /\ closes = 0)
  => isConnected

\* C12: publishMessage never returns false: it returns true exactly when
\* channel.publish returned true, and when channel.publish returned false
\* the caller gets an error.
C12_PublishNeverReturnsFalse ==
  ret.kind = "publish" =>
     /\ ret.res # "false"
     /\ (ret.res = "true") <=> (ret.published = "true")
     /\ (ret.published = "false") => (ret.res = "PublishFailed")

\* C12 witness: channel.publish has just returned false on an open channel
\* and the caller got the error
C12_Witness ==
  ret.kind = "publish" /\ ret.published = "false" /\ ret.res = "PublishFailed"

\* C13: every write that publishMessage hands to the channel is persistent
\* and carries a timestamp, whatever options the caller gave.
C13_WritesPersistentAndStamped ==
  (ret.kind = "publish" /\ ret.published \in {"true", "false"}) =>
     (ret.opts.persistent = "true" /\ ret.opts.timestamp \in {"now", "caller"})

InQueueOrInHand(m) ==
  \/ m \in ready
  \/ \E d \in DelIds : /\ del[d].msg = m /\ del[d].st = "running"
                       /\ del[d].broker = "unacked"

\* C15: with a handler that raises on its first two invocations for a
\* message and succeeds on the third, on an uninterrupted connection: each
\* of the first two callbacks ends with nack(requeue) and the message ready
\* for redelivery, the third ends with ack and the message removed; the
\* message is removed only after the third invocation, is never lost before
\* it, and is not delivered again after it.
C15_RedeliveredUntilSuccess ==
  /\ (ret.kind = "callback" /\ ret.content.correlationId = FirstId) =>
        IF invoked[ret.msg] < 3
        THEN /\ ret.nack /\ ret.requeue /\ ~ret.ack
             /\ ret.msg \in ready /\ payload[ret.msg] = "json"
        ELSE /\ ret.ack /\ ~ret.nack
             /\ payload[ret.msg] = "none"
  /\ \A m \in Msgs :
       \/ sent < m
       \/ payload[m] = "json" /\ envelope[m].correlationId = OtherId
       \/ /\ payload[m] = "json" /\ envelope[m].correlationId = FirstId
          /\ InQueueOrInHand(m) /\ invoked[m] <= 3
          /\ invoked[m] = 3 => m \notin ready
       \/ /\ payload[m] = "none" /\ invoked[m] = 3 /\ m \notin ready
          /\ \A d \in DelIds : del[d].msg # m

\* C15 witness: the third invocation for a message carrying FirstId has
\* ended and the message has been acked and removed
C15_Witness ==
  /\ ret.kind = "callback" /\ ret.content.correlationId = FirstId /\ ret.ack
  /\ invoked[ret.msg] = 3 /\ payload[ret.msg] = "none"

C19_RoundTripPreservesEnvelope ==
  (ret.kind = "roundtrip" /\ ~Falsy(ret.supplied))
    => /\ ret.back.correlationId = ret.supplied
       /\ ret.back.type = ret.event.type
       /\ ret.back.data = ret.event.data
       /\ ret.back.timestamp = ret.event.timestamp
       /\ ret.back.version = ret.event.version

\* the part of C19 about the four fields other than data, and about data
\* that holds no Date
RoundTripPreservesJsonValues ==
  (ret.kind = "roundtrip" /\ ~Falsy(ret.supplied))
    => /\ ret.back.correlationId = ret.supplied
       /\ ret.back.type = ret.event.type
       /\ ret.back.timestamp = ret.event.timestamp
       /\ ret.back.version = ret.event.version
       /\ ret.event.data.when # "Date" => ret.back.data = ret.event.data

\* an event that lacks type, data or timestamp
LacksField(e) ==
  e.type = "absent" \/ e.data = NoData \/ e.timestamp = "absent"

\* C14: a delivered message whose payload parses but lacks type, data or
\* timestamp is rejected without requeue (nack, requeue false), the
\* handler's domain logic is not run for it, and it is not acknowledged.
C14_IncompleteEventRejected ==
  (ret.kind = "callback" /\ ret.parsed /\ LacksField(ret.content))
    => /\ ret.nack /\ ~ret.requeue
       /\ ~ret.ack
       /\ ~ret.domain

\* routing keys a publisher could use besides the three of the code
OtherKeys == {<<"email">>, <<"email", "sent", "again">>, <<"user", "deleted">>}

\* C18: with the declared topology a message published with routing key R
\* to exchange X is placed once in every queue bound to X with a pattern
\* matching R and in no other queue: user.registered on the user exchange
\* reaches only email.requests, email.sent and email.failed on the email
\* exchange reach only email.responses; and so do the messages that the two
\* services publish.
C18_TopicRouting ==
  /\ SetupDone(broker) =>
       /\ Route(UserExchange, UserRegisteredKey, broker) = {EmailRequestsQueue}
       /\ Route(EmailExchange, EmailSentKey, broker) = {EmailResponsesQueue}
       /\ Route(EmailExchange, EmailFailedKey, broker) = {EmailResponsesQueue}
       /\ Route(EmailExchange, UserRegisteredKey, broker) = {}
       /\ \A k \in {EmailSentKey, EmailFailedKey} \cup OtherKeys :
             Route(UserExchange, k, broker) = {}
       /\ \A k \in OtherKeys : Route(EmailExchange, k, broker) = {}
  /\ (ret.kind = "register" /\ ret.written) =>
       /\ ret.queues = {EmailRequestsQueue}
       /\ ret.msg = sent /\ ret.msg \in ready
       /\ envelope[ret.msg] = ret.event
  /\ ret.kind = "callback" =>
       \A i \in 1..Len(ret.events) :
          /\ ret.events[i].exchange = EmailExchange
          /\ ret.events[i].key \in {EmailSentKey, EmailFailedKey}
          /\ ret.events[i].queues = {EmailResponsesQueue}

\* C18 witness: a handler has published email.sent and then email.failed,
\* each placed in email.responses
C18_Witness ==
  /\ ret.kind = "callback" /\ Len(ret.events) = 2
  /\ ret.events[1].key = EmailSentKey /\ ret.events[2].key = EmailFailedKey
  /\ ret.events[1].queues = {EmailResponsesQueue}
  /\ ret.events[2].queues = {EmailResponsesQueue}

\* C20: every result event (email.sent or email.failed) that the email
\* service publishes in reaction to a user.registered event carries the
\* correlationId of that event, which is the one the user service assigned
\* to the registration request, on every delivery and redelivery.
C20_CorrelationIdPropagated ==
  /\ (ret.kind = "register" /\ ret.written) =>
       /\ ret.event.type = UserRegisteredType
       /\ ret.event.correlationId = ret.correlationId
       /\ envelope[ret.msg].correlationId = ret.correlationId
  /\ \A d \in DelIds :
       del[d].st = "running" => del[d].content = envelope[del[d].msg]
  /\ ret.kind = "callback" =>
       \A i \in 1..Len(ret.events) :
          /\ ret.events[i].event.type \in {EmailSentType, EmailFailedType}
          /\ ret.events[i].event.correlationId = ret.content.correlationId
          /\ ret.content.correlationId \in Ids

\* C20 witness: a redelivery (second or later invocation for the message) of
\* an event registered with correlationId "c2" has published a result event
C20_Witness ==
  /\ ret.kind = "callback" /\ invoked[ret.msg] >= 2
  /\ ret.content.correlationId = "c2"
  /\ ret.content.data.body \in Usernames
  /\ Len(ret.events) >= 1
  /\ ret.events[1].event.correlationId = "c2"

\* the place of a kind of declaration in the order exchanges, queues, bindings
Rank(kind) == IF kind = "exchange" THEN 1 ELSE IF kind = "queue" THEN 2 ELSE 3

\* C21: within one run of setupExchangesAndQueues every exchange is declared
\* before any queue and every queue before any binding, and a binding is
\* declared only after its exchange and its queue were declared in that run.
C21_ExchangesQueuesThenBindings ==
  LET items == declared.items
  IN /\ \A i \in 1..Len(items), j \in 1..Len(items) :
          i < j => Rank(items[i].kind) <= Rank(items[j].kind)
     /\ \A i \in 1..Len(items) :
          items[i].kind = "binding" =>
            /\ \E j \in 1..(i - 1) : items[j] = Exchange(items[i].name)
            /\ \E j \in 1..(i - 1) : items[j] = Queue(items[i].queue)
            /\ Exchange(items[i].name) \in broker
            /\ Queue(items[i].queue) \in broker

\* C21 witness: a run has made all its declarations, the two bindings last
C21_Witness ==
  /\ Len(declared.items) = Len(SetupItems)
  /\ declared.items[Len(SetupItems) - 1].kind = "binding"
  /\ declared.items[Len(SetupItems)].kind = "binding"

\* C22: a malformed (non-parseable) payload never causes the handler to be
\* invoked, on the first delivery of the message or on any later one.
C22_MalformedNeverReachesHandler ==
  /\ \A m \in Msgs : payload[m] = "garbage" => invoked[m] = 0
  /\ \A d \in DelIds : del[d].st = "running" => payload[del[d].msg] # "garbage"
  /\ (ret.kind = "callback" /\ ~ret.parsed) =>
        ret.outcome = "none" /\ ~ret.domain

\* C22 witness: the only message put on the queue is malformed and its
\* second delivery has just been handled
C22_Witness ==
  /\ ret.kind = "callback" /\ ~ret.parsed
  /\ sent = 1 /\ payload[1] = "garbage" /\ nDel >= 2

\* C23: the user service publishes a user.registered event only after the
\* user record has been written successfully, and publishes nothing for a
\* request rejected for missing fields (400) or for an existing username or
\* email (409).
C23_PublishOnlyAfterWrite ==
  ret.kind = "register" =>
     /\ ret.written => (ret.stored /\ ~ret.existed /\ ret.username \in users)
     /\ ret.status \in {400, 409} =>
          (~ret.written /\ ~ret.stored /\ ret.queues = {} /\ ret.msg = NULL)
     /\ ret.msg # NULL => (ret.written /\ envelope[ret.msg].data.body = ret.username)

\* C23 witness: a request for an existing username has been answered 409
\* after an earlier request stored that user and published its event
C23_Witness ==
  /\ ret.kind = "register" /\ ret.status = 409
  /\ sent >= 1 /\ ret.username \in users

\* C30: in every outcome of POST /api/users/register a user record is
\* persisted if and only if a user.registered event for that user was
\* accepted by the channel.
C30_StoredIffEventAccepted ==
  ret.kind = "register" => (ret.stored <=> ret.written)

\* C24: the ack or nack for a delivery is issued on the channel that
\* delivered the message; a handler that ends after reconnect() has replaced
\* the channel does not ack or nack its delivery on the new channel.
C24_SettledOnDeliveringChannel ==
  (ret.kind = "callback" /\ (ret.ack \/ ret.nack)) => ret.sameCh

\* C25: after any sequence of connect(), reconnect(), close() calls and
\* broker failures, no call being in progress, the manager holds at most one
\* open broker connection: every connection it opened and no longer
\* references has been closed.
C25_AtMostOneOpenConnection ==
  (pc = "idle" /\ pcS = "idle") =>
     /\ Cardinality(connOpen) <= 1
     /\ connOpen \subseteq {connection}

\* C26: whenever connect() fails (broker unreachable, channel creation
\* failure, topology declaration failure), the manager is not Connected
\* afterwards: isConnected is false and a following publishMessage fails
\* with the not-connected error.
C26_FailedConnectLeavesDisconnected ==
  (ret.kind = "connect" /\ ret.res = "failed") =>
     /\ ~isConnected
     /\ PublishOutcome(TRUE) = "NotConnected"

\* the number of connect attempts in the trace of a reconnect call
Attempts(trace) == Cardinality({ i \in 1..Len(trace) : trace[i] = "a" })

\* C27: reconnect(maxRetries, delay) fails with the reconnect-exhausted
\* error only after exactly maxRetries connect attempts have been made (and
\* failed); called while the manager is already connected it makes no
\* attempt and does not fail.
C27_ExhaustedOnlyAfterMaxRetries ==
  ret.kind = "reconnect" =>
     /\ ret.res = "exhausted" => Attempts(ret.trace) = ret.n
     /\ ~ret.startDisc => (ret.res # "exhausted" /\ Attempts(ret.trace) = 0)

\* the connect() that opened the current connection has returned
\* successfully: its setup run made every declaration
CurrentConnectSucceeded ==
  /\ connection # NULL /\ declared.ch = connection
  /\ Len(declared.items) = Len(SetupItems)

\* C28: an error or close event fired by a connection that a later
\* successful connect() has replaced does not change the manager's state:
\* isConnected stays true as long as the current connection has fired no
\* error/close event and close() has not been called.
C28_StaleEventIgnored ==
  (CurrentConnectSucceeded /\ connection \in connOpen /\ closes = 0)
    => isConnected

\* C29: for each invocation of the email handler on a user.registered event,
\* email.failed is published only if sending the welcome email failed and
\* email.sent only if it succeeded; email.failed is never published for an
\* email that was sent.
C29_ResultEventMatchesSending ==
  ret.kind = "callback" =>
     \A i \in 1..Len(ret.events) :
        /\ ret.events[i].event.type = EmailFailedType => ~ret.emailed
        /\ ret.events[i].event.type = EmailSentType => ret.emailed

====
